---------------------------- MODULE Spec2Model ----------------------------
(***************************************************************************)
(* A model of glium's program object (src/src/program/program.rs):         *)
(* creation from source and from a binary, the link under the process-wide *)
(* compiler lock, link diagnostics, reflection, the lazily filled fragment *)
(* data location cache, and destruction.                                   *)
(*                                                                         *)
(* Every thread owns one context (Rc<Context> is not shared between        *)
(* threads).  A creation is a sequence of steps, one per block of the      *)
(* function, so that the steps of two threads interleave; the queries and  *)
(* the destructor of a Program are single steps.  calls[t] is the list of  *)
(* the calls the running (or just finished) operation of thread t has      *)
(* issued, in order: native calls, calls to the collaborators              *)
(* (build_shader, reflect_*, purge_program), make_current and the lock.    *)
(***************************************************************************)
EXTENDS Integers, Sequences, FiniteSets, TLC

VARIABLES
    profile,    \* profile[t]: version and extensions of the context of thread t
    pc,         \* pc[t]: the position of thread t
    att,        \* att[t]: the locals of the operation thread t is running
    calls,      \* calls[t]: the calls that operation has issued so far
    programs,   \* programs[t]: the live Program values of thread t
    ctxt,       \* ctxt[t]: the command context of thread t
    gl,         \* gl[t]: the driver's program objects in the context of thread t
    lock        \* COMPILER_GLOBAL_LOCK: the thread holding it, or "free"

vars == <<profile, pc, att, calls, programs, ctxt, gl, lock>>

---------------------------------------------------------------------------
(* Bounds *)

\* native program names the driver hands out are 1..MaxHandle
MaxHandle == 2

---------------------------------------------------------------------------
(* Threads, versions, capability profiles *)

Threads == {"t1", "t2"}

MainThread == {"t1"}

\* Version(Api::Gl, major, minor) >= Version(Api::Gl, major, minor)
VersionGE(v, w) == v[1] > w[1] \/ (v[1] = w[1] /\ v[2] >= w[2])

Versions == {<<1, 5>>, <<2, 1>>, <<3, 0>>, <<4, 1>>}

AllProfiles ==
    [version : Versions,
     gl_arb_shader_objects : BOOLEAN,
     gl_ext_transform_feedback : BOOLEAN,
     gl_arb_get_programy_binary : BOOLEAN]

\* ProgramVariant with the extension preferred to the version
ProgramVariantPrefersExtension(p) ==
    IF p.gl_arb_shader_objects THEN "Handle"
    ELSE IF VersionGE(p.version, <<2, 0>>) THEN "Id"
    ELSE "unreachable"

\* the variant create_program gives a program on a context
ProgramVariant(p) ==
    IF VersionGE(p.version, <<2, 0>>) THEN "Id"
    ELSE IF p.gl_arb_shader_objects THEN "Handle"
    ELSE "unreachable"

\* a context exists only on an implementation that has shaders
Profiles == {p \in AllProfiles : ProgramVariant(p) # "unreachable"}

---------------------------------------------------------------------------
(* Values *)

MkHandle(variant, n) == [variant |-> variant, n |-> n]

NoHandle == MkHandle("None", 0)

\* a call: its name, the handle it is about, its other argument, a number it
\* passes or gets back (a buffer size, a status), and what it returns
EvR(f, id, arg, n, ret) == [f |-> f, id |-> id, arg |-> arg, n |-> n, ret |-> ret]

EvN(f, id, arg, n) == EvR(f, id, arg, n, "")

Ev(f, id, arg) == EvR(f, id, arg, 0, "")

Res(tag, msg, val) == [tag |-> tag, msg |-> msg, val |-> val]

NoResult == Res("none", <<>>, 0)

Modes == {"Interleaved", "Separate"}

SourceInputs ==
    [kind : {"SourceCode"},
     geometry_shader : BOOLEAN,
     tessellation_control_shader : BOOLEAN,
     tessellation_evaluation_shader : BOOLEAN,
     transform_feedback_varyings : {"None"} \cup Modes]

BinaryInput ==
    [kind |-> "Binary",
     geometry_shader |-> FALSE,
     tessellation_control_shader |-> FALSE,
     tessellation_evaluation_shader |-> FALSE,
     transform_feedback_varyings |-> "None"]

NoInput == [BinaryInput EXCEPT !.kind = "none"]

\* Binary { format, content }
MkBinary(format, content) == [format |-> format, content |-> content]

NoBinary == MkBinary(0, <<>>)

\* Option<u32>
None == [some |-> FALSE, v |-> 0]

Some(v) == [some |-> TRUE, v |-> v]

\* the locals of an operation; debug_before keeps the value
\* report_debug_output_errors had when the link block was entered, error_log
\* and error_log_size are the buffer and the length the fetch of the log left
NoAttempt ==
    [op |-> "none", input |-> NoInput, todo |-> <<>>, store |-> <<>>,
     id |-> NoHandle, has_tessellation_shaders |-> FALSE,
     name |-> "", debug_before |-> TRUE,
     error_log |-> <<>>, error_log_size |-> 0, binary |-> NoBinary,
     result |-> NoResult]

---------------------------------------------------------------------------
(* The driver and the collaborators *)

\* what build_shader can return for one stage
BuildShaderOutcomes ==
    {"Ok", "CompilationError", "ShaderTypeNotSupported", "CompilationNotSupported"}

\* the variant of the handle build_shader gives a shader on a context
ShaderVariant(p) == ProgramVariant(p)

\* names the driver has not given to a live program object
FreeNames(t) == (1 .. MaxHandle) \ gl[t].alive

\* what glCreateProgram / glCreateProgramObjectARB can return: a fresh name, or 0
CreateReturns(t) == FreeNames(t) \cup {0}

\* what glGetError can return
GlErrors == {"NO_ERROR", "INVALID_VALUE", "INVALID_OPERATION", "OUT_OF_MEMORY"}

\* the info logs of the driver (valid UTF-8 text, as a sequence of characters)
InfoLogs == {<<>>, <<"e">>, <<"e", "r">>}

\* what the reflection of a linked program can find (its tables), the
\* locations of its fragment outputs, and the bytes of its program binary
Images ==
    {[uniforms |-> {"mvp"}, attributes |-> {"position"},
      uniform_blocks |-> {}, varyings |-> "None",
      frag_data |-> [color |-> 0, depth |-> -1], binary |-> <<"b1">>],
     [uniforms |-> {}, attributes |-> {"position", "normal"},
      uniform_blocks |-> {"Block"}, varyings |-> "Interleaved",
      frag_data |-> [color |-> 1, depth |-> 0], binary |-> <<"b2", "b3">>]}

\* the format tag the driver gives its program binaries
DriverFormat == 1

\* the binaries a caller hands to Program::new: the ones this driver wrote
\* for a linked program, and one that it did not write
Binaries ==
    {MkBinary(DriverFormat, img.binary) : img \in Images}
    \cup {MkBinary(2, <<"x">>)}

\* what glProgramBinary makes of format, content and length: the linked
\* program the driver wrote these bytes for, if there is one
LoadedImages(format, content, length) ==
    {img \in Images :
        /\ format = DriverFormat
        /\ length = Len(content)
        /\ img.binary = SubSeq(content, 1, length)}

---------------------------------------------------------------------------
(* Helpers of the steps *)

Call(t, e) == calls' = [calls EXCEPT ![t] = Append(@, e)]

Calls(t, es) == calls' = [calls EXCEPT ![t] = @ \o es]

Goto(t, l) == pc' = [pc EXCEPT ![t] = l]

\* the operation returns r to its caller
Finish(t, r) ==
    /\ pc' = [pc EXCEPT ![t] = "done"]
    /\ att' = [att EXCEPT ![t].result = r]

\* a panic (assert!, unreachable!, panic!, unwrap) unwinds the thread: its
\* guards are dropped, and the thread runs nothing more
Panic(t) ==
    /\ pc' = [pc EXCEPT ![t] = "panicked"]
    /\ att' = [att EXCEPT ![t].result = Res("panic", <<>>, 0)]
    /\ ctxt' = [ctxt EXCEPT ![t].held = FALSE]
    /\ lock' = IF lock = t THEN "free" ELSE lock

---------------------------------------------------------------------------
(* Program::from_source_impl *)

\* Shaders with the optional stages pushed in another order
ShadersGeometryLast(input) ==
    <<"VERTEX_SHADER", "FRAGMENT_SHADER">>
    \o (IF input.tessellation_control_shader THEN <<"TESS_CONTROL_SHADER">> ELSE <<>>)
    \o (IF input.tessellation_evaluation_shader THEN <<"TESS_EVALUATION_SHADER">> ELSE <<>>)
    \o (IF input.geometry_shader THEN <<"GEOMETRY_SHADER">> ELSE <<>>)

\* the list of the sources and their types
Shaders(input) ==
    <<"VERTEX_SHADER", "FRAGMENT_SHADER">>
    \o (IF input.geometry_shader THEN <<"GEOMETRY_SHADER">> ELSE <<>>)
    \o (IF input.tessellation_control_shader THEN <<"TESS_CONTROL_SHADER">> ELSE <<>>)
    \o (IF input.tessellation_evaluation_shader THEN <<"TESS_EVALUATION_SHADER">> ELSE <<>>)

\* HasTessellationShaders that wants both tessellation stages
HasTessellationShadersBoth(input) ==
    input.tessellation_control_shader /\ input.tessellation_evaluation_shader

\* let mut has_tessellation_shaders = false, set where a tessellation source
\* is pushed
HasTessellationShaders(input) ==
    input.tessellation_control_shader \/ input.tessellation_evaluation_shader

\* the test that returns TransformFeedbackNotSupported
TransformFeedbackRejected(p, input) ==
    /\ input.transform_feedback_varyings # "None"
    /\ \/ VersionGE(p.version, <<3, 0>>)
       \/ ~p.gl_ext_transform_feedback

\* BeginFromSource with the varyings checked only after the context was made
\* current and the program object created
BeginFromSourceLateCheck(t, input) ==
    /\ pc[t] = "idle"
    /\ FreeNames(t) # {}
    /\ IF TransformFeedbackRejected(profile[t], input)
       THEN /\ pc' = [pc EXCEPT ![t] = "done"]
            /\ att' = [att EXCEPT ![t] =
                   [NoAttempt EXCEPT !.op = "from_source", !.input = input,
                       !.result = Res("TransformFeedbackNotSupported", <<>>, 0)]]
            /\ calls' = [calls EXCEPT ![t] =
                   <<Ev("make_current", NoHandle, ""),
                     Ev("CreateProgram", NoHandle, "")>>]
            /\ ctxt' = [ctxt EXCEPT ![t].held = TRUE]
       ELSE /\ pc' = [pc EXCEPT ![t] = "compile"]
            /\ att' = [att EXCEPT ![t] =
                   [NoAttempt EXCEPT !.op = "from_source", !.input = input,
                       !.todo = Shaders(input),
                       !.has_tessellation_shaders = HasTessellationShaders(input)]]
            /\ calls' = [calls EXCEPT ![t] = <<>>]
            /\ UNCHANGED ctxt
    /\ UNCHANGED <<profile, programs, gl, lock>>

\* the function is entered: the stage list is built and the varyings are checked
BeginFromSource(t, input) ==
    /\ pc[t] = "idle"
    /\ FreeNames(t) # {}
    /\ IF TransformFeedbackRejected(profile[t], input)
       THEN /\ pc' = [pc EXCEPT ![t] = "done"]
            /\ att' = [att EXCEPT ![t] =
                   [NoAttempt EXCEPT !.op = "from_source", !.input = input,
                       !.result = Res("TransformFeedbackNotSupported", <<>>, 0)]]
       ELSE /\ pc' = [pc EXCEPT ![t] = "compile"]
            /\ att' = [att EXCEPT ![t] =
                   [NoAttempt EXCEPT !.op = "from_source", !.input = input,
                       !.todo = Shaders(input),
                       !.has_tessellation_shaders = HasTessellationShaders(input)]]
    /\ calls' = [calls EXCEPT ![t] = <<>>]
    /\ UNCHANGED <<profile, programs, ctxt, gl, lock>>

\* one turn of the loop that builds the shaders
CompileStage(t) ==
    /\ pc[t] = "compile"
    /\ LET ty == Head(att[t].todo) IN
       \E out \in BuildShaderOutcomes :
         /\ Call(t, EvR("build_shader", NoHandle, ty, 0, out))
         /\ IF out = "Ok"
            THEN /\ att' = [att EXCEPT ![t].todo = Tail(@),
                                       ![t].store = Append(@, ty)]
                 /\ pc' = [pc EXCEPT ![t] =
                        IF Len(att[t].todo) = 1 THEN "make_current" ELSE "compile"]
            ELSE Finish(t, Res(out, <<>>, 0))
    /\ UNCHANGED <<profile, programs, ctxt, gl, lock>>

\* let mut ctxt = facade.get_context().make_current()
MakeCurrent(t) ==
    /\ pc[t] = "make_current"
    /\ ctxt' = [ctxt EXCEPT ![t].held = TRUE]
    /\ Call(t, Ev("make_current", NoHandle, ""))
    /\ Goto(t, "create")
    /\ UNCHANGED <<profile, att, programs, gl, lock>>

\* the native call create_program issues on a context
CreateCall(p) ==
    IF ProgramVariant(p) = "Id" THEN "CreateProgram" ELSE "CreateProgramObjectARB"

\* create_program
CreateProgram(t) ==
    /\ pc[t] = "create"
    /\ IF ProgramVariant(profile[t]) = "unreachable"
       THEN Panic(t) /\ UNCHANGED <<calls, gl>>
       ELSE /\ Call(t, Ev(CreateCall(profile[t]), NoHandle, ""))
            /\ \E n \in CreateReturns(t) :
                 IF n = 0
                 THEN Panic(t) /\ UNCHANGED gl
                 ELSE /\ gl' = [gl EXCEPT ![t].alive = @ \cup {n}]
                      /\ att' = [att EXCEPT ![t].id =
                             MkHandle(ProgramVariant(profile[t]), n)]
                      /\ pc' = [pc EXCEPT ![t] =
                             IF att[t].op = "from_source" THEN "attach"
                             ELSE "load_binary"]
                      /\ UNCHANGED <<ctxt, lock>>
    /\ UNCHANGED <<profile, programs>>

\* the attach call that matches the pair (program handle, shader handle)
AttachCall(id, shVariant) ==
    IF id.variant = "Id" /\ shVariant = "Id" THEN "AttachShader"
    ELSE IF id.variant = "Handle" /\ shVariant = "Handle" THEN "AttachObjectARB"
    ELSE "unreachable"

\* the assertion that guards a call on a handle of this variant
CapabilityAssert(p, variant) ==
    IF variant = "Id" THEN VersionGE(p.version, <<2, 0>>)
    ELSE p.gl_arb_shader_objects

\* the loop that attaches the shaders
AttachShaders(t) ==
    /\ pc[t] = "attach"
    /\ LET id == att[t].id
           f == AttachCall(id, ShaderVariant(profile[t]))
       IN IF f = "unreachable" \/ ~CapabilityAssert(profile[t], id.variant)
          THEN Panic(t) /\ UNCHANGED calls
          ELSE /\ Calls(t, [i \in 1 .. Len(att[t].store) |->
                                Ev(f, id, att[t].store[i])])
               /\ Goto(t, IF att[t].input.transform_feedback_varyings # "None"
                          THEN "varyings" ELSE "lock")
               /\ UNCHANGED <<att, ctxt, lock>>
    /\ UNCHANGED <<profile, programs, gl>>

\* the native enumerant of a TransformFeedbackMode
ModeEnum(mode, ext) ==
    IF mode = "Interleaved"
    THEN (IF ext THEN "INTERLEAVED_ATTRIBS_EXT" ELSE "INTERLEAVED_ATTRIBS")
    ELSE (IF ext THEN "SEPARATE_ATTRIBS_EXT" ELSE "SEPARATE_ATTRIBS")

\* VaryingsCall with the modern call on every context
VaryingsCallModern(p, id) ==
    IF id.variant # "Id" THEN "unreachable" ELSE "TransformFeedbackVaryings"

\* the call that configures the varyings on a context, or "unreachable"
VaryingsCall(p, id) ==
    IF id.variant # "Id" THEN "unreachable"
    ELSE IF VersionGE(p.version, <<3, 0>>) THEN "TransformFeedbackVaryings"
    ELSE IF p.gl_ext_transform_feedback THEN "TransformFeedbackVaryingsEXT"
    ELSE "unreachable"

\* if let Some((names, mode)) = transform_feedback_varyings
ConfigureVaryings(t) ==
    /\ pc[t] = "varyings"
    /\ LET f == VaryingsCall(profile[t], att[t].id)
           mode == att[t].input.transform_feedback_varyings
       IN IF f = "unreachable"
          THEN Panic(t) /\ UNCHANGED calls
          ELSE /\ Call(t, Ev(f, att[t].id,
                             ModeEnum(mode, f = "TransformFeedbackVaryingsEXT")))
               /\ Goto(t, "lock")
               /\ UNCHANGED <<att, ctxt, lock>>
    /\ UNCHANGED <<profile, programs, gl>>

\* AcquireLock without the lock: the link is entered whoever holds the lock
AcquireLockNoWait(t) ==
    /\ pc[t] = "lock"
    /\ lock' = t
    /\ ctxt' = [ctxt EXCEPT ![t].report_debug_output_errors = FALSE]
    /\ Call(t, Ev("lock", NoHandle, ""))
    /\ Goto(t, "link")
    /\ att' = [att EXCEPT ![t].debug_before = ctxt[t].report_debug_output_errors]
    /\ UNCHANGED <<profile, programs, gl>>

\* let _lock = COMPILER_GLOBAL_LOCK.lock(); report_debug_output_errors.set(false)
AcquireLock(t) ==
    /\ pc[t] = "lock"
    /\ lock = "free"
    /\ lock' = t
    /\ ctxt' = [ctxt EXCEPT ![t].report_debug_output_errors = FALSE]
    /\ Call(t, Ev("lock", NoHandle, ""))
    /\ Goto(t, "link")
    /\ att' = [att EXCEPT ![t].debug_before = ctxt[t].report_debug_output_errors]
    /\ UNCHANGED <<profile, programs, gl>>

LinkCallName(id) == IF id.variant = "Id" THEN "LinkProgram" ELSE "LinkProgramARB"

\* the native link call is entered
LinkCall(t) ==
    /\ pc[t] = "link"
    /\ IF ~CapabilityAssert(profile[t], att[t].id.variant)
       THEN Panic(t) /\ UNCHANGED calls
       ELSE /\ Call(t, Ev(LinkCallName(att[t].id), att[t].id, ""))
            /\ Goto(t, "in_link")
            /\ UNCHANGED <<att, ctxt, lock>>
    /\ UNCHANGED <<profile, programs, gl>>

\* LinkReturn with the guard living on after the block of the link
LinkReturnKeepLock(t) ==
    /\ pc[t] = "in_link"
    /\ ctxt' = [ctxt EXCEPT ![t].report_debug_output_errors = TRUE]
    /\ Goto(t, "check")
    /\ UNCHANGED <<profile, att, calls, programs, gl, lock>>

\* the native link call returns; report_debug_output_errors.set(true); the
\* block ends and _lock is dropped
LinkReturn(t) ==
    /\ pc[t] = "in_link"
    /\ ctxt' = [ctxt EXCEPT ![t].report_debug_output_errors = TRUE]
    /\ lock' = "free"
    /\ Call(t, Ev("unlock", NoHandle, ""))
    /\ Goto(t, "check")
    /\ UNCHANGED <<profile, att, programs, gl>>

---------------------------------------------------------------------------
(* check_program_link_errors *)

StatusCall(id) == IF id.variant = "Id" THEN "GetProgramiv" ELSE "GetObjectParameterivARB"

LinkStatusParam(id) ==
    IF id.variant = "Id" THEN "LINK_STATUS" ELSE "OBJECT_LINK_STATUS_ARB"

LogLengthParam(id) ==
    IF id.variant = "Id" THEN "INFO_LOG_LENGTH" ELSE "OBJECT_INFO_LOG_LENGTH_ARB"

InfoLogCall(id) == IF id.variant = "Id" THEN "GetProgramInfoLog" ELSE "GetInfoLogARB"

\* the driver's answer to INFO_LOG_LENGTH: the characters and the terminator
InfoLogLength(log) == IF log = <<>> THEN 0 ELSE Len(log) + 1

\* what the driver writes into a buffer of bufSize bytes (the characters that
\* fit beside the terminator); its length is what it reports back
FetchedLog(log, bufSize) ==
    IF bufSize <= 1 THEN <<>>
    ELSE SubSeq(log, 1, IF Len(log) < bufSize - 1 THEN Len(log) ELSE bufSize - 1)

\* ErrorMessage with every error reported as unknown
ErrorMessageAlwaysUnknown(err) ==
    <<"glLinkProgram triggered an unknown error">>

\* the message of the LinkingError for an error of the error queue
ErrorMessage(err) ==
    IF err = "INVALID_VALUE" THEN <<"glLinkProgram triggered GL_INVALID_VALUE">>
    ELSE IF err = "INVALID_OPERATION"
    THEN <<"glLinkProgram triggered GL_INVALID_OPERATION">>
    ELSE <<"glLinkProgram triggered an unknown error">>

\* LinkFailure with the log fetched into a buffer of a fixed size
LinkFailureFixedBuffer(id, err, log) ==
    IF err # "NO_ERROR"
    THEN [calls |-> <<EvR("GetError", NoHandle, "", 0, err)>>,
          error_log |-> <<>>, error_log_size |-> 0,
          result |-> Res("LinkingError", ErrorMessage(err), 0)]
    ELSE LET size == InfoLogLength(log)
             text == FetchedLog(log, 2)
         IN [calls |-> <<EvR("GetError", NoHandle, "", 0, err),
                         EvN(StatusCall(id), id, LogLengthParam(id), size),
                         EvN(InfoLogCall(id), id, "", 2)>>,
             error_log |-> text, error_log_size |-> Len(text),
             result |-> Res("LinkingError", text, Len(text))]

\* LinkFailure with a failure that left no error and no log taken for a success
LinkFailureUnlessSilent(id, err, log) ==
    IF err # "NO_ERROR"
    THEN [calls |-> <<EvR("GetError", NoHandle, "", 0, err)>>,
          error_log |-> <<>>, error_log_size |-> 0,
          result |-> Res("LinkingError", ErrorMessage(err), 0)]
    ELSE LET size == InfoLogLength(log)
             text == FetchedLog(log, size)
         IN [calls |-> <<EvR("GetError", NoHandle, "", 0, err),
                         EvN(StatusCall(id), id, LogLengthParam(id), size),
                         EvN(InfoLogCall(id), id, "", size)>>,
             error_log |-> text, error_log_size |-> Len(text),
             result |-> IF text = <<>> THEN Res("Ok", <<>>, id.n)
                        ELSE Res("LinkingError", text, Len(text))]

\* the calls of the failure branch and the error it returns, for the error
\* queue's answer err and the driver's log
LinkFailure(id, err, log) ==
    IF err # "NO_ERROR"
    THEN [calls |-> <<EvR("GetError", NoHandle, "", 0, err)>>,
          error_log |-> <<>>, error_log_size |-> 0,
          result |-> Res("LinkingError", ErrorMessage(err), 0)]
    ELSE LET size == InfoLogLength(log)
             text == FetchedLog(log, size)
         IN [calls |-> <<EvR("GetError", NoHandle, "", 0, err),
                         EvN(StatusCall(id), id, LogLengthParam(id), size),
                         EvN(InfoLogCall(id), id, "", size)>>,
             error_log |-> text, error_log_size |-> Len(text),
             result |-> Res("LinkingError", text, Len(text))]

\* where the creation goes on after check_program_link_errors returned Ok
AfterCheck(op) == IF op = "from_source" THEN "reflect" ELSE "reflect_binary"

\* what the driver can answer to LINK_STATUS: after a link, either status;
\* after the load of a binary, success if it took the binary
LinkStatuses(t) ==
    IF att[t].op = "from_binary"
    THEN (IF att[t].id.n \in DOMAIN gl[t].image THEN {1} ELSE {0})
    ELSE {0, 1}

CheckProgramLinkErrors(t) ==
    /\ pc[t] = "check"
    /\ LET id == att[t].id IN
       IF ~CapabilityAssert(profile[t], id.variant)
       THEN Panic(t) /\ UNCHANGED calls
       ELSE \E link_success \in LinkStatuses(t) :
              IF link_success = 0
              THEN \E err \in GlErrors, log \in InfoLogs :
                     LET f == LinkFailure(id, err, log) IN
                     /\ Calls(t, <<EvN(StatusCall(id), id, LinkStatusParam(id), 0)>>
                                 \o f.calls)
                     /\ pc' = [pc EXCEPT ![t] = "done"]
                     /\ att' = [att EXCEPT ![t].result = f.result,
                                           ![t].error_log = f.error_log,
                                           ![t].error_log_size = f.error_log_size]
                     /\ UNCHANGED <<ctxt, lock>>
              ELSE /\ Call(t, EvN(StatusCall(id), id, LinkStatusParam(id), 1))
                   /\ Goto(t, AfterCheck(att[t].op))
                   /\ UNCHANGED <<att, ctxt, lock>>
    /\ UNCHANGED <<profile, programs, gl>>

---------------------------------------------------------------------------
(* Reflection and the construction of the Program *)

\* ReflectCalls with the uniforms reflected a second time for the blocks
ReflectCallsUniformsTwice(id) ==
    <<Ev("reflect_uniforms", id, ""), Ev("reflect_attributes", id, ""),
      Ev("reflect_uniforms", id, ""), Ev("reflect_transform_feedback", id, "")>>

\* the four reflections, in the order of the tuple
ReflectCalls(id) ==
    <<Ev("reflect_uniforms", id, ""), Ev("reflect_attributes", id, ""),
      Ev("reflect_uniform_blocks", id, ""), Ev("reflect_transform_feedback", id, "")>>

\* Program { .. }
NewProgram(id, img, tess) ==
    [id |-> id,
     uniforms |-> img.uniforms,
     uniform_blocks |-> img.uniform_blocks,
     attributes |-> img.attributes,
     frag_data_locations |-> <<>>,
     varyings |-> img.varyings,
     has_tessellation_shaders |-> tess,
     first_location |-> <<>>]

\* the end of from_source_impl: the four reflections, then Ok(Program { .. })
ReflectAndConstruct(t) ==
    /\ pc[t] = "reflect"
    /\ Calls(t, ReflectCalls(att[t].id))
    /\ \E img \in Images :
         /\ gl' = [gl EXCEPT ![t].image = (att[t].id.n :> img) @@ @]
         /\ programs' = [programs EXCEPT ![t] =
             @ \cup {NewProgram(att[t].id, img, att[t].has_tessellation_shaders)}]
    /\ Finish(t, Res("Ok", <<>>, att[t].id.n))
    /\ UNCHANGED <<profile, ctxt, lock>>

---------------------------------------------------------------------------
(* Program::from_binary_impl *)

\* the function is entered and the context is made current
BeginFromBinary(t, binary) ==
    /\ pc[t] = "idle"
    /\ FreeNames(t) # {}
    /\ att' = [att EXCEPT ![t] =
           [NoAttempt EXCEPT !.op = "from_binary", !.input = BinaryInput,
               !.binary = binary]]
    /\ ctxt' = [ctxt EXCEPT ![t].held = TRUE]
    /\ calls' = [calls EXCEPT ![t] = <<Ev("make_current", NoHandle, "")>>]
    /\ Goto(t, "create")
    /\ UNCHANGED <<profile, programs, gl, lock>>

\* binary.content.len() as GLsizei, the length ProgramBinary is given
BinaryLength(binary) == Len(binary.content)

\* match id { Handle::Id(id) => ProgramBinary, Handle::Handle(id) => unreachable!() }
LoadBinary(t) ==
    /\ pc[t] = "load_binary"
    /\ LET id == att[t].id
           binary == att[t].binary
           length == BinaryLength(binary)
           loaded == LoadedImages(binary.format, binary.content, length)
       IN
       IF id.variant # "Id" \/ ~CapabilityAssert(profile[t], id.variant)
       THEN Panic(t) /\ UNCHANGED <<calls, gl>>
       ELSE /\ Call(t, EvN("ProgramBinary", id, "", length))
            /\ gl' = [gl EXCEPT ![t].image =
                   IF loaded = {} THEN @
                   ELSE (id.n :> CHOOSE img \in loaded : TRUE) @@ @]
            /\ Goto(t, "check")
            /\ UNCHANGED <<att, ctxt, lock>>
    /\ UNCHANGED <<profile, programs>>

\* the end of from_binary_impl: the four reflections, then Ok(Program { .. })
ReflectAndConstructBinary(t) ==
    /\ pc[t] = "reflect_binary"
    /\ Calls(t, ReflectCalls(att[t].id))
    /\ programs' = [programs EXCEPT ![t] =
           @ \cup {NewProgram(att[t].id, gl[t].image[att[t].id.n], TRUE)}]
    /\ Finish(t, Res("Ok", <<>>, att[t].id.n))
    /\ UNCHANGED <<profile, ctxt, gl, lock>>

\* the operation has returned: its locals and the guard of the current
\* context are gone
Return(t) ==
    /\ pc[t] = "done"
    /\ pc' = [pc EXCEPT ![t] = "idle"]
    /\ att' = [att EXCEPT ![t] = NoAttempt]
    /\ calls' = [calls EXCEPT ![t] = <<>>]
    /\ ctxt' = [ctxt EXCEPT ![t].held = FALSE]
    /\ UNCHANGED <<profile, programs, gl, lock>>

---------------------------------------------------------------------------
(* Program::get_frag_data_location *)

\* the names the callers ask for; "nul" stands for a name with an interior
\* NUL byte, which CString::new refuses
FragNames == {"color", "depth", "nul"}

\* what glGetFragDataLocation returns for a name of a linked program
FragDataLocation(t, id, name) == gl[t].image[id.n].frag_data[name]

\* match value { -1 => None, a => Some(a as u32) }; the driver returns -1 or a
\* location >= 0, which the cast to u32 leaves as it is
Location(value) == IF value = -1 THEN None ELSE Some(value)

\* CacheInsert that returns the location without keeping it
CacheInsertNothing(p, name, location) ==
    [p EXCEPT !.first_location = IF name \in DOMAIN @ THEN @
                                 ELSE (name :> location) @@ @]

\* CacheInsert that starts the cache anew with the one entry
CacheInsertAlone(p, name, location) ==
    [p EXCEPT !.frag_data_locations = (name :> location),
              !.first_location = IF name \in DOMAIN @ THEN @
                                 ELSE (name :> location) @@ @]

\* the Program with one more entry in its cache (first_location keeps, for
\* every name, what the first call with that name returned)
CacheInsert(p, name, location) ==
    [p EXCEPT !.frag_data_locations = (name :> location) @@ @,
              !.first_location = IF name \in DOMAIN @ THEN @
                                 ELSE (name :> location) @@ @]

LocationResult(location) ==
    Res(IF location.some THEN "Some" ELSE "None", <<>>, location.v)

\* FragQuery with the query issued without the context made current
FragQueryNoContext(p, value) ==
    IF p.id.variant = "Id"
    THEN [calls |-> <<Ev("GetFragDataLocation", p.id, "")>>, value |-> value]
    ELSE [calls |-> <<>>, value |-> -1]

\* the call on a cache miss: what is issued, and what value comes back
FragQuery(p, value) ==
    IF p.id.variant = "Id"
    THEN [calls |-> <<Ev("make_current", NoHandle, ""),
                      Ev("GetFragDataLocation", p.id, "")>>,
          value |-> value]
    ELSE [calls |-> <<Ev("make_current", NoHandle, "")>>, value |-> -1]

GetFragDataLocation(t, p, name) ==
    /\ pc[t] = "idle"
    /\ p \in programs[t]
    /\ IF name \in DOMAIN p.frag_data_locations
       THEN /\ calls' = [calls EXCEPT ![t] = <<>>]
            /\ pc' = [pc EXCEPT ![t] = "done"]
            /\ att' = [att EXCEPT ![t] =
                   [NoAttempt EXCEPT !.op = "get_frag_data_location",
                       !.id = p.id, !.name = name,
                       !.result = LocationResult(p.frag_data_locations[name])]]
            /\ UNCHANGED <<programs, ctxt, lock>>
       ELSE IF name = "nul"
               \/ (p.id.variant = "Id" /\ ~CapabilityAssert(profile[t], "Id"))
       THEN /\ pc' = [pc EXCEPT ![t] = "panicked"]
            /\ att' = [att EXCEPT ![t] =
                   [NoAttempt EXCEPT !.op = "get_frag_data_location",
                       !.id = p.id, !.name = name,
                       !.result = Res("panic", <<>>, 0)]]
            /\ calls' = [calls EXCEPT ![t] =
                   IF name = "nul" THEN <<>>
                   ELSE <<Ev("make_current", NoHandle, "")>>]
            /\ ctxt' = [ctxt EXCEPT ![t].held = FALSE]
            /\ UNCHANGED <<programs, lock>>
       ELSE   LET q == FragQuery(p, FragDataLocation(t, p.id, name))
                  location == Location(q.value)
              IN /\ calls' = [calls EXCEPT ![t] = q.calls]
                 /\ ctxt' = [ctxt EXCEPT ![t].held = TRUE]
                 /\ programs' = [programs EXCEPT ![t] =
                        (@ \ {p}) \cup {CacheInsert(p, name, location)}]
                 /\ pc' = [pc EXCEPT ![t] = "done"]
                 /\ att' = [att EXCEPT ![t] =
                        [NoAttempt EXCEPT !.op = "get_frag_data_location",
                            !.id = p.id, !.name = name,
                            !.result = LocationResult(location)]]
                 /\ UNCHANGED lock
    /\ UNCHANGED <<profile, gl>>

---------------------------------------------------------------------------
(* Program::get_binary_if_supported *)

\* ctxt.version >= 4.1 || ctxt.extensions.gl_arb_get_programy_binary
BinarySupported(p) ==
    VersionGE(p.version, <<4, 1>>) \/ p.gl_arb_get_programy_binary

\* what glGetProgramBinary writes for a linked program: its bytes
ProgramBinaryContent(t, id) == gl[t].image[id.n].binary

\* what glGetProgramBinary writes into a buffer of bufSize bytes: the whole
\* binary if it fits, nothing otherwise
WrittenBinary(content, bufSize) ==
    IF Len(content) <= bufSize THEN content ELSE <<>>

\* the two calls that fetch the binary, and Some(Binary { format, content }):
\* the length is asked first, the fetch gets a buffer of that length, and
\* the content is cut to the length the fetch reports
BinaryFetch(id, content) ==
    LET buf_len == Len(content)
        storage == WrittenBinary(content, buf_len)
    IN [calls |-> <<EvN("GetProgramiv", id, "PROGRAM_BINARY_LENGTH", buf_len),
                    EvN("GetProgramBinary", id, "", buf_len)>>,
        result |-> Res("Some", storage, DriverFormat)]

GetBinaryIfSupported(t, p) ==
    /\ pc[t] = "idle"
    /\ p \in programs[t]
    /\ IF ~BinarySupported(profile[t])
       THEN /\ calls' = [calls EXCEPT ![t] = <<Ev("make_current", NoHandle, "")>>]
            /\ ctxt' = [ctxt EXCEPT ![t].held = TRUE]
            /\ pc' = [pc EXCEPT ![t] = "done"]
            /\ att' = [att EXCEPT ![t] =
                   [NoAttempt EXCEPT !.op = "get_binary_if_supported",
                       !.id = p.id, !.result = Res("None", <<>>, 0)]]
            /\ UNCHANGED lock
       ELSE IF p.id.variant # "Id"
       THEN /\ calls' = [calls EXCEPT ![t] = <<Ev("make_current", NoHandle, "")>>]
            /\ pc' = [pc EXCEPT ![t] = "panicked"]
            /\ att' = [att EXCEPT ![t] =
                   [NoAttempt EXCEPT !.op = "get_binary_if_supported",
                       !.id = p.id, !.result = Res("panic", <<>>, 0)]]
            /\ ctxt' = [ctxt EXCEPT ![t].held = FALSE]
            /\ UNCHANGED lock
       ELSE LET b == BinaryFetch(p.id, ProgramBinaryContent(t, p.id)) IN
            /\ calls' = [calls EXCEPT ![t] =
                   <<Ev("make_current", NoHandle, "")>> \o b.calls]
            /\ ctxt' = [ctxt EXCEPT ![t].held = TRUE]
            /\ pc' = [pc EXCEPT ![t] = "done"]
            /\ att' = [att EXCEPT ![t] =
                   [NoAttempt EXCEPT !.op = "get_binary_if_supported",
                       !.id = p.id, !.result = b.result]]
            /\ UNCHANGED lock
    /\ UNCHANGED <<profile, programs, gl>>

---------------------------------------------------------------------------
(* The accessors of a Program that only read its fields *)

Accessors ==
    {"get_uniform", "uniforms", "get_uniform_blocks", "get_attribute",
     "attributes", "get_id"}

\* the name the callers look up with get_uniform and get_attribute
LookupNames == {"mvp"}

\* what the accessor f of the Program p returns for the name it is given: an
\* entry of a table or None, the size of a table, a field
AccessorResult(p, f, name) ==
    IF f = "get_uniform"
    THEN Res(IF name \in p.uniforms THEN "Some" ELSE "None", <<>>, 0)
    ELSE IF f = "get_attribute"
    THEN Res(IF name \in p.attributes THEN "Some" ELSE "None", <<>>, 0)
    ELSE IF f = "uniforms" THEN Res("Iter", <<>>, Cardinality(p.uniforms))
    ELSE IF f = "attributes" THEN Res("Iter", <<>>, Cardinality(p.attributes))
    ELSE IF f = "get_uniform_blocks"
    THEN Res("Map", <<>>, Cardinality(p.uniform_blocks))
    ELSE Res(p.id.variant, <<>>, p.id.n)

\* Accessor with get_uniform taking the entry out of the table
AccessorRemovesUniform(t, p, f, name) ==
    /\ pc[t] = "idle"
    /\ p \in programs[t]
    /\ pc' = [pc EXCEPT ![t] = "done"]
    /\ att' = [att EXCEPT ![t] =
           [NoAttempt EXCEPT !.op = f, !.id = p.id, !.name = name,
               !.result = AccessorResult(p, f, name)]]
    /\ calls' = [calls EXCEPT ![t] = <<>>]
    /\ programs' = [programs EXCEPT ![t] =
           IF f = "get_uniform"
           THEN (@ \ {p}) \cup {[p EXCEPT !.uniforms = @ \ {name}]}
           ELSE @]
    /\ UNCHANGED <<profile, ctxt, gl, lock>>

\* &self accessors: no call is issued and the context is not made current
Accessor(t, p, f, name) ==
    /\ pc[t] = "idle"
    /\ p \in programs[t]
    /\ pc' = [pc EXCEPT ![t] = "done"]
    /\ att' = [att EXCEPT ![t] =
           [NoAttempt EXCEPT !.op = f, !.id = p.id, !.name = name,
               !.result = AccessorResult(p, f, name)]]
    /\ calls' = [calls EXCEPT ![t] = <<>>]
    /\ UNCHANGED <<profile, programs, ctxt, gl, lock>>

---------------------------------------------------------------------------
(* Drop for Program, and the binding of a program by the drawing code *)

\* the handle 0 of the same variant
ZeroHandle(id) == MkHandle(id.variant, 0)

UnbindCall(id) == IF id.variant = "Id" THEN "UseProgram" ELSE "UseProgramObjectARB"

DeleteCall(id) == IF id.variant = "Id" THEN "DeleteProgram" ELSE "DeleteObjectARB"

\* DropCalls with the delete issued before the purge of the vertex array objects
DropCallsDeleteFirst(id, bound) ==
    <<Ev("make_current", NoHandle, ""), Ev(DeleteCall(id), id, "")>>
    \o (IF bound = id THEN <<Ev(UnbindCall(id), ZeroHandle(id), "")>> ELSE <<>>)
    \o <<Ev("purge_program", id, "")>>

\* the calls of the destructor of a Program with handle id, when the
\* context's tracked program is bound
DropCalls(id, bound) ==
    <<Ev("make_current", NoHandle, ""), Ev("purge_program", id, "")>>
    \o (IF bound = id THEN <<Ev(UnbindCall(id), ZeroHandle(id), "")>> ELSE <<>>)
    \o <<Ev(DeleteCall(id), id, "")>>

\* DropBound that leaves the tracked program as it was
DropBoundKeeps(id, bound) == bound

\* ctxt.state.program after the destructor
DropBound(id, bound) == IF bound = id THEN ZeroHandle(id) ELSE bound

Drop(t, p) ==
    /\ pc[t] = "idle"
    /\ p \in programs[t]
    /\ IF ~CapabilityAssert(profile[t], p.id.variant)
       THEN /\ Panic(t)
            /\ calls' = [calls EXCEPT ![t] =
                   <<Ev("make_current", NoHandle, ""), Ev("purge_program", p.id, "")>>]
            /\ UNCHANGED <<programs, gl>>
       ELSE /\ calls' = [calls EXCEPT ![t] = DropCalls(p.id, ctxt[t].state_program)]
            /\ ctxt' = [ctxt EXCEPT ![t].held = TRUE,
                   ![t].state_program = DropBound(p.id, @)]
            /\ gl' = [gl EXCEPT ![t].alive = @ \ {p.id.n},
                   ![t].image = [n \in DOMAIN @ \ {p.id.n} |-> @[n]]]
            /\ programs' = [programs EXCEPT ![t] = @ \ {p}]
            /\ pc' = [pc EXCEPT ![t] = "done"]
            /\ att' = [att EXCEPT ![t] =
                   [NoAttempt EXCEPT !.op = "drop", !.id = p.id]]
            /\ UNCHANGED lock
    /\ UNCHANGED profile

\* the drawing code binds a live program and records it in ctxt.state.program
UseProgram(t, p) ==
    /\ pc[t] = "idle"
    /\ p \in programs[t]
    /\ ctxt[t].state_program # p.id
    /\ ctxt' = [ctxt EXCEPT ![t].state_program = p.id]
    /\ UNCHANGED <<profile, pc, att, calls, programs, gl, lock>>

---------------------------------------------------------------------------
(* The specifications *)

InitContext ==
    [held |-> FALSE, state_program |-> MkHandle("Id", 0),
     report_debug_output_errors |-> TRUE]

InitCommon ==
    /\ pc = [t \in Threads |-> "idle"]
    /\ att = [t \in Threads |-> NoAttempt]
    /\ calls = [t \in Threads |-> <<>>]
    /\ programs = [t \in Threads |-> {}]
    /\ ctxt = [t \in Threads |-> InitContext]
    /\ gl = [t \in Threads |-> [alive |-> {}, image |-> <<>>]]
    /\ lock = "free"

\* the steps of a creation from source after its first
CreationSteps(t) ==
    \/ CompileStage(t)
    \/ MakeCurrent(t)
    \/ CreateProgram(t)
    \/ AttachShaders(t)
    \/ ConfigureVaryings(t)
    \/ AcquireLock(t)
    \/ LinkCall(t)
    \/ LinkReturn(t)
    \/ CheckProgramLinkErrors(t)
    \/ ReflectAndConstruct(t)
    \/ Return(t)

CreationFromBinary(t) ==
    \/ \E binary \in Binaries : BeginFromBinary(t, binary)
    \/ LoadBinary(t)
    \/ ReflectAndConstructBinary(t)

\* Spec: the creations of one thread, from every input and on a context of
\* every profile; a Program that was created is dropped at some time
Init ==
    /\ \E p \in Profiles : profile = [t \in Threads |-> p]
    /\ InitCommon

Next ==
    \E t \in MainThread :
        \/ \E input \in SourceInputs : BeginFromSource(t, input)
        \/ CreationSteps(t)
        \/ CreationFromBinary(t)
        \/ \E p \in programs[t] : Drop(t, p)

Spec == Init /\ [][Next]_vars

\* SpecLife: the whole life of the Programs of one thread: creation, binding,
\* queries and destruction.  The creation's inputs do not matter to a Program
\* once it exists, so they are few here.
LifeInputs ==
    {i \in SourceInputs :
        /\ ~i.geometry_shader
        /\ i.tessellation_control_shader = i.tessellation_evaluation_shader
        /\ (i.transform_feedback_varyings = "Separate") = i.tessellation_control_shader}

LifeProfiles ==
    {p \in Profiles :
        /\ p.version \in {<<1, 5>>, <<2, 1>>, <<4, 1>>}
        /\ p.gl_arb_shader_objects
        /\ p.gl_ext_transform_feedback = (p.version = <<2, 1>>)
        /\ p.version = <<4, 1>> => p.gl_arb_get_programy_binary}

InitLife ==
    /\ \E p \in LifeProfiles : profile = [t \in Threads |-> p]
    /\ InitCommon

NextLife ==
    \E t \in MainThread :
        \/ \E input \in LifeInputs : BeginFromSource(t, input)
        \/ CreationSteps(t)
        \/ CreationFromBinary(t)
        \/ \E p \in programs[t], name \in FragNames : GetFragDataLocation(t, p, name)
        \/ \E p \in programs[t] : GetBinaryIfSupported(t, p)
        \/ \E p \in programs[t], f \in Accessors :
              \E name \in (IF f \in {"get_uniform", "get_attribute"}
                            THEN LookupNames ELSE {""}) :
                Accessor(t, p, f, name)
        \/ \E p \in programs[t] : Drop(t, p)
        \/ \E p \in programs[t] : UseProgram(t, p)

SpecLife == InitLife /\ [][NextLife]_vars

\* SpecMT: two threads, each creating programs from source on its own context.
\* What matters here is how the steps of two creations interleave, so a
\* thread begins a creation only when its context holds no program object.
MTInputs ==
    {i \in SourceInputs :
        /\ ~i.geometry_shader
        /\ ~i.tessellation_control_shader
        /\ ~i.tessellation_evaluation_shader
        /\ i.transform_feedback_varyings \in {"None", "Interleaved"}}

MTProfiles ==
    {p \in Profiles :
        /\ p.version \in {<<1, 5>>, <<2, 1>>}
        /\ p.gl_ext_transform_feedback = (p.version = <<2, 1>>)
        /\ p.gl_arb_shader_objects
        /\ ~p.gl_arb_get_programy_binary}

InitMT ==
    /\ profile \in [Threads -> MTProfiles]
    /\ InitCommon

NextMT ==
    \E t \in Threads :
        \/ \E input \in MTInputs : gl[t].alive = {} /\ BeginFromSource(t, input)
        \/ CreationSteps(t)
        \/ \E p \in programs[t] : Drop(t, p)

SpecMT == InitMT /\ [][NextMT]_vars

\* SpecDebug: the creations from source of one thread on a context whose
\* report_debug_output_errors is on or off when the first creation begins
\* (the Cell of the context is written by whoever holds the context)
InitDebug ==
    /\ \E p \in MTProfiles : profile = [t \in Threads |-> p]
    /\ pc = [t \in Threads |-> "idle"]
    /\ att = [t \in Threads |-> NoAttempt]
    /\ calls = [t \in Threads |-> <<>>]
    /\ programs = [t \in Threads |-> {}]
    /\ \E flag \in BOOLEAN :
         ctxt = [t \in Threads |->
                    [InitContext EXCEPT !.report_debug_output_errors = flag]]
    /\ gl = [t \in Threads |-> [alive |-> {}, image |-> <<>>]]
    /\ lock = "free"

NextDebug ==
    \E t \in MainThread :
        \/ \E input \in MTInputs : BeginFromSource(t, input)
        \/ CreationSteps(t)
        \/ \E p \in programs[t] : Drop(t, p)

SpecDebug == InitDebug /\ [][NextDebug]_vars

---------------------------------------------------------------------------
(* What the claims speak of *)

\* the positions of the calls named in fs, in the calls of thread t
Positions(t, fs) == {i \in 1 .. Len(calls[t]) : calls[t][i].f \in fs}

\* thread t is in, or has just ended, a creation from source
InFromSource(t) == att[t].op = "from_source"

InCreation(t) == att[t].op \in {"from_source", "from_binary"}

Returned(t, tag) == pc[t] = "done" /\ att[t].result.tag = tag

NativeCalls ==
    {"CreateProgram", "CreateProgramObjectARB", "AttachShader", "AttachObjectARB",
     "TransformFeedbackVaryings", "TransformFeedbackVaryingsEXT",
     "LinkProgram", "LinkProgramARB", "ProgramBinary",
     "GetProgramiv", "GetObjectParameterivARB", "GetError",
     "GetProgramInfoLog", "GetInfoLogARB", "GetFragDataLocation",
     "GetProgramBinary",
     "UseProgram", "UseProgramObjectARB", "DeleteProgram", "DeleteObjectARB"}

LinkCalls == {"LinkProgram", "LinkProgramARB"}

---------------------------------------------------------------------------
(* C1 *)

\* transform feedback is available on a context: it has the modern version
\* or the extension
TransformFeedbackAvailable(p) ==
    VersionGE(p.version, <<3, 0>>) \/ p.gl_ext_transform_feedback

\* C1: a creation from source with varyings requested fails with
\* TransformFeedbackNotSupported exactly when the context has neither
\* GL >= 3.0 nor gl_ext_transform_feedback.  (The code returns the error on
\* every context of GL >= 3.0, and on no other context that has the
\* extension: TLC finds the claim violated.)
C1_RejectedIffUnavailable ==
    \A t \in Threads :
        (InFromSource(t) /\ att[t].input.transform_feedback_varyings # "None")
        => ((att[t].result.tag = "TransformFeedbackNotSupported")
            <=> ~TransformFeedbackAvailable(profile[t]))

---------------------------------------------------------------------------
(* C2 *)

\* C2: when a creation returns TransformFeedbackNotSupported, it has compiled
\* no shader, has not made the context current and has issued no native
\* call: it has issued no call at all, and does not hold the context.
C2_RejectedBeforeAnyWork ==
    \A t \in Threads :
        att[t].result.tag = "TransformFeedbackNotSupported"
        => /\ Positions(t, {"build_shader", "make_current"} \cup NativeCalls) = {}
           /\ calls[t] = <<>>
           /\ ~ctxt[t].held
           /\ att[t].id = NoHandle

C2_Witness ==
    \E t \in Threads :
        /\ Returned(t, "TransformFeedbackNotSupported")
        /\ ~TransformFeedbackAvailable(profile[t])

---------------------------------------------------------------------------
(* C3 *)

\* C3: at most one thread is inside the native link call at any time, and a
\* thread inside it holds COMPILER_GLOBAL_LOCK.
C3_OneLinkAtATime ==
    /\ Cardinality({t \in Threads : pc[t] = "in_link"}) <= 1
    /\ \A t \in Threads : pc[t] = "in_link" => lock = t

\* one thread is inside the link call while the other waits for the lock
C3_Witness ==
    \E t, u \in Threads :
        /\ t # u
        /\ pc[t] = "in_link"
        /\ pc[u] = "lock"
        /\ calls[t][Len(calls[t])].f \in LinkCalls

---------------------------------------------------------------------------
(* C4 *)

\* the calls of thread t made while it held the lock: those after a "lock"
\* with no "unlock" in between
UnderLock(t) ==
    {i \in 1 .. Len(calls[t]) :
        \E j \in Positions(t, {"lock"}) :
            /\ j < i
            /\ \A k \in Positions(t, {"unlock"}) : k < j \/ k >= i}

\* C4: the compiler lock is held only around the link call: a thread that
\* holds it is about to enter, or is inside, the link call; the only call
\* made under the lock is the link call (no build_shader, create, attach,
\* varyings, status query or reflection); and a creation that has returned
\* (Ok or an error) or has gone on to the link status check or to the
\* reflection does not hold it.
C4_LockOnlyAroundLink ==
    \A t \in Threads :
        /\ lock = t => pc[t] \in {"link", "in_link"}
        /\ \A i \in UnderLock(t) : calls[t][i].f \in LinkCalls \cup {"unlock"}
        /\ pc[t] \in {"link", "in_link"} => lock = t
        /\ Cardinality(Positions(t, {"lock"})) <= 1

\* a creation has returned LinkingError, having taken and released the lock,
\* while the other thread holds the lock
C4_Witness ==
    \E t, u \in Threads :
        /\ Returned(t, "LinkingError")
        /\ Positions(t, {"lock"}) # {}
        /\ Positions(t, {"unlock"}) # {}
        /\ lock = u

---------------------------------------------------------------------------
(* C5 *)

DroppedNow(t) == pc[t] = "done" /\ att[t].op = "drop"

\* C5: the destructor purges the vertex array objects of the program's
\* handle, then unbinds the program if it is bound, then deletes it with the
\* call of the handle's variant: one purge, with this handle; one delete, of
\* this handle, after the purge; an unbind only between the two.
C5_DropOrder ==
    \A t \in Threads :
        DroppedNow(t) =>
            LET id == att[t].id
                purges == Positions(t, {"purge_program"})
                deletes == Positions(t, {"DeleteProgram", "DeleteObjectARB"})
                unbinds == Positions(t, {"UseProgram", "UseProgramObjectARB"})
            IN /\ Cardinality(purges) = 1
               /\ Cardinality(deletes) = 1
               /\ Cardinality(unbinds) <= 1
               /\ \A i \in purges : calls[t][i].id = id
               /\ \A i \in deletes :
                    /\ calls[t][i].id = id
                    /\ calls[t][i].f = (IF id.variant = "Id" THEN "DeleteProgram"
                                        ELSE "DeleteObjectARB")
               /\ \A i \in purges, j \in deletes : i < j
               /\ \A i \in purges, j \in deletes, k \in unbinds : i < k /\ k < j

\* a bound program has been destroyed: purged, unbound and deleted
C5_Witness ==
    \E t \in Threads :
        /\ DroppedNow(t)
        /\ Positions(t, {"UseProgram", "UseProgramObjectARB"}) # {}
        /\ Positions(t, {"purge_program"}) # {}

---------------------------------------------------------------------------
(* C6 *)

\* thread t makes a call of get_frag_data_location that returns
FragStep(t) ==
    /\ pc[t] = "idle"
    /\ pc'[t] = "done"
    /\ att'[t].op = "get_frag_data_location"

\* C6: a call of get_frag_data_location with a name the Program was asked
\* for before returns what the first call with that name returned, issues
\* no native query and does not make the context current.
C6_SecondCallFromCache ==
    [][\A t \in Threads :
         FragStep(t) =>
           \A p \in programs[t] :
             (p.id = att'[t].id /\ att'[t].name \in DOMAIN p.first_location)
             => /\ att'[t].result = LocationResult(p.first_location[att'[t].name])
                /\ calls'[t] = <<>>
                /\ ~ctxt'[t].held]_vars

\* a repeated call has returned a location without any call
C6_Witness ==
    \E t \in Threads :
        /\ pc[t] = "done"
        /\ att[t].op = "get_frag_data_location"
        /\ att[t].result.tag = "Some"
        /\ calls[t] = <<>>
        /\ \E p \in programs[t] :
             p.id = att[t].id /\ att[t].name \in DOMAIN p.first_location

---------------------------------------------------------------------------
(* C7 *)

\* C7: the cache is empty in a Program just constructed and only grows: a
\* step keeps every entry of every Program with its value, and adds at most
\* the entry of the name a get_frag_data_location call of that step asked for.
C7_CacheOnlyGrows ==
    [][\A t \in Threads : \A q \in programs'[t] :
         IF \E p \in programs[t] : p.id = q.id
         THEN \A p \in programs[t] :
                p.id = q.id =>
                  LET old == DOMAIN p.frag_data_locations
                      new == DOMAIN q.frag_data_locations
                  IN /\ \A n \in old :
                          /\ n \in new
                          /\ q.frag_data_locations[n] = p.frag_data_locations[n]
                     /\ new # old =>
                          /\ att'[t].op = "get_frag_data_location"
                          /\ new \ old = {att'[t].name}
         ELSE DOMAIN q.frag_data_locations = {}]_vars

\* a Program whose cache holds two names
C7_Witness ==
    \E t \in Threads : \E p \in programs[t] :
        Cardinality(DOMAIN p.frag_data_locations) = 2

---------------------------------------------------------------------------
(* C8 *)

ReflectFns ==
    {"reflect_uniforms", "reflect_attributes", "reflect_uniform_blocks",
     "reflect_transform_feedback"}

\* the positions of the queries of the link status
StatusQueries(t) ==
    {i \in Positions(t, {"GetProgramiv", "GetObjectParameterivARB"}) :
        calls[t][i].arg \in {"LINK_STATUS", "OBJECT_LINK_STATUS_ARB"}}

\* C8: on both creation paths each of the four reflection functions is
\* called at most once, only after a link status query that reported
\* success, exactly once in a creation that returns Ok, and never in a
\* creation that returns an error.
C8_ReflectionOnceAfterSuccess ==
    \A t \in Threads :
        InCreation(t) =>
            /\ \A f \in ReflectFns : Cardinality(Positions(t, {f})) <= 1
            /\ \A i \in Positions(t, ReflectFns) :
                 \E j \in StatusQueries(t) : j < i /\ calls[t][j].n # 0
            /\ Returned(t, "Ok") =>
                 \A f \in ReflectFns : Cardinality(Positions(t, {f})) = 1
            /\ (pc[t] = "done" /\ att[t].result.tag # "Ok") =>
                 Positions(t, ReflectFns) = {}

\* a creation from a binary has returned Ok after its four reflections
C8_Witness ==
    \E t \in Threads :
        /\ Returned(t, "Ok")
        /\ att[t].op = "from_binary"
        /\ Cardinality(Positions(t, ReflectFns)) = 4

---------------------------------------------------------------------------
(* C9 *)

\* C9: when the link status read after the link, or after the load of a
\* binary, is failure, the creation returns LinkingError and constructs no
\* Program; and the link status is queried at most once in a creation, once
\* in every creation that returns Ok or LinkingError.
C9_LinkFailureIsLinkingError ==
    \A t \in Threads :
        InCreation(t) =>
            /\ Cardinality(StatusQueries(t)) <= 1
            /\ (\E i \in StatusQueries(t) : calls[t][i].n = 0) =>
                 /\ Returned(t, "LinkingError")
                 /\ \A p \in programs[t] : p.id # att[t].id
            /\ (Returned(t, "Ok") \/ Returned(t, "LinkingError")) =>
                 Cardinality(StatusQueries(t)) = 1
            /\ Returned(t, "LinkingError") =>
                 \E i \in StatusQueries(t) : calls[t][i].n = 0

\* a creation from source has returned LinkingError with the driver's log
C9_Witness ==
    \E t \in Threads :
        /\ Returned(t, "LinkingError")
        /\ att[t].op = "from_source"
        /\ att[t].result.msg = <<"e", "r">>
        /\ \E i \in StatusQueries(t) : calls[t][i].n = 0

---------------------------------------------------------------------------
(* C10 *)

Stages ==
    {"VERTEX_SHADER", "FRAGMENT_SHADER", "GEOMETRY_SHADER",
     "TESS_CONTROL_SHADER", "TESS_EVALUATION_SHADER"}

\* the order the claim gives the stages
StageRank(s) ==
    CASE s = "VERTEX_SHADER" -> 1
      [] s = "FRAGMENT_SHADER" -> 2
      [] s = "GEOMETRY_SHADER" -> 3
      [] s = "TESS_CONTROL_SHADER" -> 4
      [] s = "TESS_EVALUATION_SHADER" -> 5

\* the stages an input has a source for
Present(input, s) ==
    \/ s \in {"VERTEX_SHADER", "FRAGMENT_SHADER"}
    \/ s = "GEOMETRY_SHADER" /\ input.geometry_shader
    \/ s = "TESS_CONTROL_SHADER" /\ input.tessellation_control_shader
    \/ s = "TESS_EVALUATION_SHADER" /\ input.tessellation_evaluation_shader

CompileErrors ==
    {"CompilationError", "ShaderTypeNotSupported", "CompilationNotSupported"}

\* C10: a creation from source compiles the present stages one after the
\* other in the order vertex, fragment, geometry, tessellation control,
\* tessellation evaluation; a stage that fails to compile is the last call
\* of the creation, which returns that stage's error: no later stage is
\* compiled, the context is not made current, no native call is issued and
\* no Program is constructed; and every other call comes after all present
\* stages have compiled.
C10_CompileInOrderFirstFailureAborts ==
    \A t \in Threads :
        InFromSource(t) =>
            LET c == calls[t]
                b == Positions(t, {"build_shader"})
            IN /\ \A i \in b : Present(att[t].input, c[i].arg)
               /\ \A i, j \in b : i < j => StageRank(c[i].arg) < StageRank(c[j].arg)
               /\ \A i \in b : \A s \in Stages :
                    (Present(att[t].input, s) /\ StageRank(s) < StageRank(c[i].arg))
                    => \E j \in b : j < i /\ c[j].arg = s /\ c[j].ret = "Ok"
               /\ \A i \in b :
                    c[i].ret # "Ok" =>
                        /\ i = Len(c)
                        /\ Returned(t, c[i].ret)
                        /\ att[t].id = NoHandle
                        /\ \A p \in programs[t] : p.id # NoHandle
               /\ (pc[t] = "done" /\ att[t].result.tag \in CompileErrors) =>
                    /\ c # <<>>
                    /\ c[Len(c)].f = "build_shader"
                    /\ c[Len(c)].ret = att[t].result.tag
                    /\ Positions(t, {"make_current"} \cup NativeCalls) = {}
               /\ \A i \in (1 .. Len(c)) \ b : \A s \in Stages :
                    Present(att[t].input, s)
                    => \E j \in b : j < i /\ c[j].arg = s /\ c[j].ret = "Ok"

\* the geometry stage has failed to compile, after the vertex and fragment
\* stages and before the tessellation stages the input has
C10_Witness ==
    \E t \in Threads :
        /\ Returned(t, "CompilationError")
        /\ Len(calls[t]) = 3
        /\ calls[t][3].arg = "GEOMETRY_SHADER"
        /\ att[t].input.tessellation_control_shader
        /\ att[t].input.tessellation_evaluation_shader


---------------------------------------------------------------------------
(* C11 *)

\* thread t has just run get_binary_if_supported (it returned, or panicked)
BinaryStep(t) == att[t].op = "get_binary_if_supported"

\* C11: on every profile, get_binary_if_supported of a Program created on
\* the context returns the binary when the context is GL >= 4.1 or has the
\* get-program-binary extension, returns None otherwise, and never panics.
\* (Violated: a Program with the legacy handle, on a context below GL 2.0
\* that has the extension, reaches unreachable!().)
C11_BinaryWhenSupportedNeverPanics ==
    \A t \in MainThread :
        BinaryStep(t) =>
            /\ pc[t] # "panicked"
            /\ att[t].result.tag =
                   (IF BinarySupported(profile[t]) THEN "Some" ELSE "None")
            /\ BinarySupported(profile[t]) =>
                   /\ att[t].result.msg = ProgramBinaryContent(t, att[t].id)
                   /\ att[t].result.val = DriverFormat

---------------------------------------------------------------------------
(* C12 *)

DebugFlag(t) == ctxt[t].report_debug_output_errors

\* C12: report_debug_output_errors is false for the whole of the native link
\* call, and when the link block is over it has the value it had just before
\* the block, whichever value that was.  (Violated: the block ends with
\* set(true), so a flag that was off before the link is on after it.)
C12_DebugFlagRestored ==
    \A t \in MainThread :
        /\ pc[t] = "in_link" => ~DebugFlag(t)
        /\ (InFromSource(t) /\ pc[t] = "check") =>
               DebugFlag(t) = att[t].debug_before

---------------------------------------------------------------------------
(* C13 *)

\* how many of the calls cs are calls of the functions fs
Count(cs, fs) == Cardinality({i \in 1 .. Len(cs) : cs[i].f \in fs})

\* thread t runs get_frag_data_location in this step (it returns, or panics)
FragCall(t) ==
    /\ pc[t] = "idle"
    /\ att'[t].op = "get_frag_data_location"

\* the cache, after the step, of the Program of thread t with handle id
CacheAfter(t, id) ==
    (CHOOSE q \in programs'[t] : q.id = id).frag_data_locations

\* C13: for a Program with the legacy handle, get_frag_data_location returns
\* None for every name, with no native query, and the cache holds None for the
\* name; for a Program with the integer id, a cache miss issues exactly one
\* native query, -1 becomes None and any other value v becomes Some(v), and
\* the result is in the cache when the call returns.  (Violated: a name with
\* an interior NUL byte makes CString::new(..).unwrap() panic, for either
\* variant, before the variant is looked at.)
C13_LegacyNoneModernOneQuery ==
    [][\A t \in MainThread :
         FragCall(t) =>
           \A p \in programs[t] :
             p.id = att'[t].id =>
               LET name == att'[t].name IN
               /\ pc'[t] = "done"
               /\ p.id.variant = "Handle" =>
                      /\ att'[t].result = LocationResult(None)
                      /\ Count(calls'[t], NativeCalls) = 0
                      /\ CacheAfter(t, p.id)[name] = None
               /\ (p.id.variant = "Id" /\ name \notin DOMAIN p.frag_data_locations) =>
                      LET value == FragDataLocation(t, p.id, name)
                          location == IF value = -1 THEN None ELSE Some(value)
                      IN /\ Count(calls'[t], NativeCalls) = 1
                         /\ Count(calls'[t], {"GetFragDataLocation"}) = 1
                         /\ att'[t].result = LocationResult(location)
                         /\ CacheAfter(t, p.id)[name] = location]_vars

---------------------------------------------------------------------------
(* C14 *)

\* the reads of the error queue in the calls of thread t
ErrorReads(t) == Positions(t, {"GetError"})

\* the link status the creation of thread t read was failure
LinkFailed(t) == \E i \in StatusQueries(t) : calls[t][i].n = 0

\* the queries of the log length and the fetches of the log
LogQueries(t) ==
    {i \in Positions(t, {"GetProgramiv", "GetObjectParameterivARB"}) :
        calls[t][i].arg \in {"INFO_LOG_LENGTH", "OBJECT_INFO_LOG_LENGTH_ARB"}}
    \cup Positions(t, {"GetProgramInfoLog", "GetInfoLogARB"})

\* C14: a creation whose link status is failure reads the error queue
\* exactly once; if the answer is not NO_ERROR the creation returns a
\* LinkingError that names the error (GL_INVALID_VALUE, GL_INVALID_OPERATION,
\* unknown otherwise) and the log is not queried; a creation whose link
\* status is success does not read the error queue.
C14_ErrorQueueReadOnceOnFailure ==
    \A t \in MainThread :
        InCreation(t) =>
            /\ Cardinality(ErrorReads(t)) = (IF LinkFailed(t) THEN 1 ELSE 0)
            /\ \A i \in ErrorReads(t) :
                 LET err == calls[t][i].ret IN
                 err # "NO_ERROR" =>
                   /\ Returned(t, "LinkingError")
                   /\ LogQueries(t) = {}
                   /\ err = "INVALID_VALUE" => att[t].result.msg =
                          <<"glLinkProgram triggered GL_INVALID_VALUE">>
                   /\ err = "INVALID_OPERATION" => att[t].result.msg =
                          <<"glLinkProgram triggered GL_INVALID_OPERATION">>
                   /\ err \notin {"INVALID_VALUE", "INVALID_OPERATION"} =>
                          att[t].result.msg =
                          <<"glLinkProgram triggered an unknown error">>

\* a creation whose link failed with GL_INVALID_OPERATION pending has
\* returned its LinkingError
C14_Witness ==
    \E t \in MainThread :
        /\ Returned(t, "LinkingError")
        /\ LinkFailed(t)
        /\ \E i \in ErrorReads(t) : calls[t][i].ret = "INVALID_OPERATION"

---------------------------------------------------------------------------
(* C15 *)

\* C15: a creation whose link status is failure and whose error queue is
\* empty queries the log length, then fetches the log, with the call of the
\* handle's variant, into a buffer of exactly the length the query returned;
\* it returns a LinkingError whose text is the fetched log, cut to the length
\* the fetch reported (the characters that fit the buffer beside the
\* terminator).
C15_LogLengthThenFetch ==
    \A t \in MainThread :
        (InCreation(t) /\ \E i \in ErrorReads(t) : calls[t][i].ret = "NO_ERROR") =>
            \E i, j \in 1 .. Len(calls[t]) :
               /\ i < j
               /\ \A k \in LogQueries(t) : k \in {i, j}
               /\ calls[t][i].f =
                      (IF att[t].id.variant = "Id" THEN "GetProgramiv"
                       ELSE "GetObjectParameterivARB")
               /\ calls[t][i].arg =
                      (IF att[t].id.variant = "Id" THEN "INFO_LOG_LENGTH"
                       ELSE "OBJECT_INFO_LOG_LENGTH_ARB")
               /\ calls[t][j].f =
                      (IF att[t].id.variant = "Id" THEN "GetProgramInfoLog"
                       ELSE "GetInfoLogARB")
               /\ calls[t][i].id = att[t].id
               /\ calls[t][j].id = att[t].id
               /\ calls[t][j].n = calls[t][i].n
               /\ Returned(t, "LinkingError")
               /\ att[t].result.msg = att[t].error_log
               /\ Len(att[t].result.msg) = att[t].error_log_size
               /\ att[t].error_log_size =
                      (IF calls[t][j].n = 0 THEN 0 ELSE calls[t][j].n - 1)

\* a failed link with an empty error queue has returned the two characters
\* of the driver's log, fetched into a buffer of three bytes
C15_Witness ==
    \E t \in MainThread :
        /\ Returned(t, "LinkingError")
        /\ att[t].id.variant = "Handle"
        /\ att[t].result.msg = <<"e", "r">>
        /\ \E j \in Positions(t, {"GetInfoLogARB"}) : calls[t][j].n = 3

---------------------------------------------------------------------------
(* C16 *)

\* the operations of a live Program that take &self
ReadOperations ==
    Accessors \cup {"get_binary_if_supported", "get_frag_data_location"}

\* the fields of a Program that are set at construction
Constructed(p) ==
    <<p.id, p.uniforms, p.uniform_blocks, p.attributes, p.varyings,
      p.has_tessellation_shaders>>

\* C16: in every step, a Program that is live before and after the step has
\* the id, uniforms, uniform_blocks, attributes, varyings and
\* has_tessellation_shaders it had before; its frag_data_locations differ
\* only if the step is a call of get_frag_data_location on it; and no
\* operation that takes &self makes or ends a Program.
C16_OnlyTheCacheChanges ==
    [][\A t \in MainThread :
         /\ \A p \in programs[t] : \A q \in programs'[t] :
              q.id = p.id =>
                /\ Constructed(q) = Constructed(p)
                /\ q.frag_data_locations # p.frag_data_locations =>
                      /\ pc[t] = "idle"
                      /\ att'[t].op = "get_frag_data_location"
                      /\ att'[t].id = p.id
         /\ (pc[t] = "idle" /\ att'[t].op \in ReadOperations) =>
              {p.id : p \in programs'[t]} = {p.id : p \in programs[t]}]_vars

\* get_uniform has returned an entry of a Program whose cache already holds
\* a location, with another Program live beside it
C16_Witness ==
    \E t \in MainThread :
        /\ pc[t] = "done"
        /\ att[t].op = "get_uniform"
        /\ att[t].result.tag = "Some"
        /\ Cardinality(programs[t]) = 2
        /\ \E p \in programs[t] :
             p.id = att[t].id /\ "color" \in DOMAIN p.frag_data_locations

---------------------------------------------------------------------------
(* C17 *)

\* a handle of this variant matches the context: the integer id when the
\* context is GL >= 2.0, the legacy object only when it is not and the
\* extension is present
VariantMatches(p, variant) ==
    /\ variant \in {"Id", "Handle"}
    /\ (variant = "Id") = VersionGE(p.version, <<2, 0>>)
    /\ variant = "Handle" => p.gl_arb_shader_objects

\* the assertion a call on a handle of this variant is guarded by
GuardHolds(p, variant) ==
    IF variant = "Id" THEN VersionGE(p.version, <<2, 0>>)
    ELSE p.gl_arb_shader_objects

\* C17: the handle of every Program, and of every program object a creation
\* works on, matches the profile of its context; where a creation is about
\* to attach, link or check, the assertion of the handle's variant holds and
\* the shaders have the variant of the program; and an operation that ended
\* in a panic ended in one of the other panics (no program name, varyings or
\* a binary with the legacy handle, a name with a NUL byte), never in a
\* capability assertion or a mixed pair: a panic of the destructor, of the
\* attach loop, of the link or of the status check is none of these.
C17_VariantMatchesProfile ==
    \A t \in MainThread :
        /\ \A p \in programs[t] :
             /\ VariantMatches(profile[t], p.id.variant)
             /\ GuardHolds(profile[t], p.id.variant)
        /\ pc[t] \in {"attach", "link", "in_link", "check"} =>
             /\ VariantMatches(profile[t], att[t].id.variant)
             /\ GuardHolds(profile[t], att[t].id.variant)
             /\ ShaderVariant(profile[t]) = att[t].id.variant
        /\ pc[t] = "panicked" =>
             \/ InCreation(t) /\ att[t].id = NoHandle
             \/ /\ att[t].op = "from_source"
                /\ att[t].input.transform_feedback_varyings # "None"
                /\ att[t].id.variant = "Handle"
                /\ Positions(t, LinkCalls) = {}
             \/ /\ att[t].op = "from_binary"
                /\ att[t].id.variant = "Handle"
                /\ Positions(t, {"ProgramBinary"}) = {}
             \/ att[t].op = "get_frag_data_location" /\ att[t].name = "nul"
             \/ att[t].op = "get_binary_if_supported" /\ att[t].id.variant = "Handle"

\* on a context below GL 2.0, the destructor of a Program with the legacy
\* handle has run its calls
C17_Witness ==
    \E t \in MainThread :
        /\ pc[t] = "done"
        /\ att[t].op = "drop"
        /\ att[t].id.variant = "Handle"
        /\ Positions(t, {"DeleteObjectARB"}) # {}
        /\ ~VersionGE(profile[t].version, <<2, 0>>)

---------------------------------------------------------------------------
(* C18 *)

\* the Program the creation of thread t has just returned
Created(t) == CHOOSE p \in programs[t] : p.id = att[t].id

\* C18: the Program a creation from source returns has
\* has_tessellation_shaders = true exactly when a tessellation control or a
\* tessellation evaluation source was given; the Program a creation from a
\* binary returns has has_tessellation_shaders = true.
C18_TessellationFlag ==
    \A t \in MainThread :
        (InCreation(t) /\ Returned(t, "Ok")) =>
            /\ \E p \in programs[t] : p.id = att[t].id
            /\ Created(t).has_tessellation_shaders =
                   (IF att[t].op = "from_source"
                    THEN (att[t].input.tessellation_control_shader
                          \/ att[t].input.tessellation_evaluation_shader)
                    ELSE TRUE)

\* a creation from source with a tessellation evaluation source and no
\* tessellation control source has returned a Program
C18_Witness ==
    \E t \in MainThread :
        /\ Returned(t, "Ok")
        /\ att[t].op = "from_source"
        /\ att[t].input.tessellation_evaluation_shader
        /\ ~att[t].input.tessellation_control_shader
        /\ Created(t).has_tessellation_shaders

---------------------------------------------------------------------------
(* C19 *)

\* the Programs of thread t whose get_binary_if_supported returns binary
Originals(t, binary) ==
    {p \in programs[t] :
        /\ p.id # att[t].id
        /\ BinarySupported(profile[t])
        /\ p.id.variant = "Id"
        /\ binary = MkBinary(DriverFormat, ProgramBinaryContent(t, p.id))}

\* C19: on a context where program binaries are supported,
\* get_binary_if_supported of a linked Program returns its binary, and a
\* creation from that binary on the same context, once the driver has given
\* it a program name, returns Ok with a Program that has the uniform names
\* and the attribute names of the original.  (Violated: with the legacy
\* handle get_binary_if_supported panics, see C11, and there is no binary
\* to load.)
C19_BinaryRoundTrip ==
    \A t \in MainThread :
        /\ (BinaryStep(t) /\ BinarySupported(profile[t])) =>
               /\ pc[t] = "done"
               /\ att[t].result.tag = "Some"
        /\ (/\ att[t].op = "from_binary"
            /\ pc[t] \in {"done", "panicked"}
            /\ att[t].id # NoHandle
            /\ Originals(t, att[t].binary) # {}) =>
               /\ Returned(t, "Ok")
               /\ \A p \in Originals(t, att[t].binary) :
                    /\ Created(t).uniforms = p.uniforms
                    /\ Created(t).attributes = p.attributes

---------------------------------------------------------------------------
(* C20 *)

\* the calls that go to the driver through the current context: the native
\* calls of this file and the reflections
ContextCalls == NativeCalls \cup ReflectFns

\* C20: in the calls of every operation, a call to the driver comes after
\* the operation's make_current, and the operation holds the context when
\* the call is issued and until it returns; get_uniform, get_attribute and a
\* get_frag_data_location that finds the name in the cache issue no call and
\* do not make the context current.
C20_NativeCallsUnderContext ==
    [][\A t \in MainThread :
         /\ \A i \in 1 .. Len(calls'[t]) :
              calls'[t][i].f \in ContextCalls =>
                /\ \E j \in 1 .. (i - 1) : calls'[t][j].f = "make_current"
                /\ pc'[t] # "panicked" => ctxt'[t].held
         /\ (pc[t] = "idle" /\ att'[t].op \in {"get_uniform", "get_attribute"}) =>
              /\ calls'[t] = <<>>
              /\ ~ctxt'[t].held
         /\ FragCall(t) =>
              \A p \in programs[t] :
                (p.id = att'[t].id /\ att'[t].name \in DOMAIN p.frag_data_locations)
                => /\ Count(calls'[t], ContextCalls \cup {"make_current"}) = 0
                   /\ ~ctxt'[t].held]_vars

\* a get_frag_data_location that missed the cache has made the context
\* current, issued its query and holds the context
C20_Witness ==
    \E t \in MainThread :
        /\ pc[t] = "done"
        /\ att[t].op = "get_frag_data_location"
        /\ Count(calls[t], {"GetFragDataLocation"}) = 1
        /\ calls[t][1].f = "make_current"
        /\ ctxt[t].held

---------------------------------------------------------------------------
(* C21 *)

\* thread t runs the destructor of a Program in this step
DropStep(t) ==
    /\ pc[t] = "idle"
    /\ att'[t].op = "drop"

\* the unbind calls among the calls cs
Unbinds(cs) ==
    {i \in 1 .. Len(cs) : cs[i].f \in {"UseProgram", "UseProgramObjectARB"}}

\* C21: the destructor of a Program issues the unbind call, once and with
\* the zero handle, exactly when ctxt.state.program is the Program's handle,
\* and then ctxt.state.program is the zero handle of the Program's variant;
\* the destructor of a Program that is not bound leaves ctxt.state.program
\* as it was; and after every step ctxt.state.program is the zero handle or
\* the handle of a live Program, never of a deleted one.
C21_UnbindExactlyWhenBound ==
    [][\A t \in MainThread :
         /\ DropStep(t) =>
              LET id == att'[t].id
                  bound == ctxt[t].state_program
                  unbinds == Unbinds(calls'[t])
              IN /\ Cardinality(unbinds) = (IF bound = id THEN 1 ELSE 0)
                 /\ \A i \in unbinds :
                      /\ calls'[t][i].id = MkHandle(id.variant, 0)
                      /\ calls'[t][i].f = (IF id.variant = "Id" THEN "UseProgram"
                                           ELSE "UseProgramObjectARB")
                 /\ ctxt'[t].state_program =
                      (IF bound = id THEN MkHandle(id.variant, 0) ELSE bound)
                 /\ \A p \in programs'[t] : p.id # id
         /\ \/ ctxt'[t].state_program.n = 0
            \/ \E p \in programs'[t] : p.id = ctxt'[t].state_program]_vars

\* a bound Program has been destroyed while another Program lives: the
\* unbind was issued and the tracked program is the zero handle
C21_Witness ==
    \E t \in MainThread :
        /\ DroppedNow(t)
        /\ Unbinds(calls[t]) # {}
        /\ ctxt[t].state_program = MkHandle(att[t].id.variant, 0)
        /\ programs[t] # {}

---------------------------------------------------------------------------
(* C22 *)

\* the place of position i among the positions ps, counted from 1
RankIn(ps, i) == Cardinality({j \in ps : j <= i})

\* C22: in a creation from source whose calls hold the link call: there is
\* one link call and one create call, the create call before every attach;
\* the attach calls are as many as the shaders that compiled, the k-th
\* attaches the k-th compiled shader to the program with the call of the
\* handle's variant, all before the link; with varyings requested there is
\* one varyings call, after the attach calls and before the link, the modern
\* call on GL >= 3.0 and the extension call otherwise, with the interleaved
\* or separate enumerant of that call for Interleaved or Separate, and
\* without varyings there is none; and in every creation from source a
\* query of the link status comes after the link call.
C22_CallsBeforeLinkInOrder ==
    \A t \in MainThread :
        InFromSource(t) =>
            LET c == calls[t]
                id == att[t].id
                mode == att[t].input.transform_feedback_varyings
                modern == VersionGE(profile[t].version, <<3, 0>>)
                links == Positions(t, LinkCalls)
                creates == Positions(t, {"CreateProgram", "CreateProgramObjectARB"})
                attaches == Positions(t, {"AttachShader", "AttachObjectARB"})
                builds == {i \in Positions(t, {"build_shader"}) : c[i].ret = "Ok"}
                varys == Positions(t, {"TransformFeedbackVaryings",
                                      "TransformFeedbackVaryingsEXT"})
            IN /\ \A s \in StatusQueries(t) : \E l \in links : l < s
               /\ links # {} =>
                    /\ Cardinality(links) = 1
                    /\ Cardinality(creates) = 1
                    /\ \A i \in creates : \A j \in attaches \cup varys \cup links : i < j
                    /\ Cardinality(attaches) = Cardinality(builds)
                    /\ \A i \in attaches :
                         /\ c[i].id = id
                         /\ c[i].f = (IF id.variant = "Id" THEN "AttachShader"
                                      ELSE "AttachObjectARB")
                         /\ \E j \in builds :
                              /\ RankIn(builds, j) = RankIn(attaches, i)
                              /\ c[j].arg = c[i].arg
                         /\ \A l \in links : i < l
                    /\ Cardinality(varys) = (IF mode = "None" THEN 0 ELSE 1)
                    /\ \A v \in varys :
                         /\ \A i \in attaches : i < v
                         /\ \A l \in links : v < l
                         /\ c[v].id = id
                         /\ c[v].f = (IF modern THEN "TransformFeedbackVaryings"
                                      ELSE "TransformFeedbackVaryingsEXT")
                         /\ mode = "Interleaved" =>
                              c[v].arg = (IF modern THEN "INTERLEAVED_ATTRIBS"
                                          ELSE "INTERLEAVED_ATTRIBS_EXT")
                         /\ mode = "Separate" =>
                              c[v].arg = (IF modern THEN "SEPARATE_ATTRIBS"
                                          ELSE "SEPARATE_ATTRIBS_EXT")

\* a creation with a geometry shader and Separate varyings has linked and
\* read the link status: three attach calls, then the extension's varyings
\* call, then the link
C22_Witness ==
    \E t \in MainThread :
        /\ InFromSource(t)
        /\ att[t].input.transform_feedback_varyings = "Separate"
        /\ att[t].input.geometry_shader
        /\ StatusQueries(t) # {}
        /\ Cardinality(Positions(t, {"AttachShader"})) = 3
        /\ \E v \in Positions(t, {"TransformFeedbackVaryingsEXT"}) :
             calls[t][v].arg = "SEPARATE_ATTRIBS_EXT"

---------------------------------------------------------------------------
(* C23 *)

\* the names of the handles the live Programs of thread t own
Owned(t) == {p.id.n : p \in programs[t]}

\* C23: when no operation of the thread is under way, the program objects
\* that were created and not deleted are the handles of the live Programs,
\* each the handle of one Program; a creation that has returned LinkingError
\* has left no program object behind; and a Program's handle is a program
\* object not yet deleted, so that no destructor deletes one twice.
\* (Violated: try!(check_program_link_errors(..)) returns the error and the
\* program object create_program made is never deleted.)
C23_HandleOwnership ==
    \A t \in MainThread :
        /\ Owned(t) \subseteq gl[t].alive
        /\ Cardinality(Owned(t)) = Cardinality(programs[t])
        /\ pc[t] \in {"idle", "done"} => gl[t].alive = Owned(t)
        /\ Returned(t, "LinkingError") => att[t].id.n \notin gl[t].alive

====
